---------------------------- MODULE Spec2Model ----------------------------
(***************************************************************************)
(* A model of extractor.py: the PDF outline extractor.                     *)
(*                                                                         *)
(* A text is a sequence of one-character strings, so that whitespace       *)
(* normalisation, splitting, lower-casing and the regular expressions of   *)
(* the source are computed character by character.  A document is the      *)
(* value the layout library hands the program: metadata, native table of   *)
(* contents, pages -> blocks -> lines -> spans, and the places where the   *)
(* library raises.                                                         *)
(***************************************************************************)
EXTENDS Integers, Sequences, FiniteSets, TLC

VARIABLES docs, pc, results, calls, poolError, written, fn, arg, ret

vars == <<docs, pc, results, calls, poolError, written, fn, arg, ret>>

batchVars == <<docs, pc, results, calls, poolError, written>>

(***************************************************************************)
(* Characters                                                              *)
(***************************************************************************)
UpperCs == <<"A","B","C","D","E","F","G","H","I","J","K","L","M","N","O","P","Q","R","S","T","U","V","W","X","Y","Z">>

LowerCs == <<"a","b","c","d","e","f","g","h","i","j","k","l","m","n","o","p","q","r","s","t","u","v","w","x","y","z">>

UpperSet == {UpperCs[i] : i \in DOMAIN UpperCs}

LowerSet == {LowerCs[i] : i \in DOMAIN LowerCs}

DigitSet == {"0","1","2","3","4","5","6","7","8","9"}

\* \s of the re module, within the characters of the model
SpaceSet == {" ", "\t", "\n"}

IsSpace(c) == c \in SpaceSet

IsDigit(c) == c \in DigitSet

IsAlpha(c) == c \in UpperSet \/ c \in LowerSet

\* \w of the re module
IsWordCh(c) == IsAlpha(c) \/ IsDigit(c) \/ c = "_"

\* str.lower() on one character
LowerCh(c) == IF c \in UpperSet THEN LowerCs[CHOOSE i \in DOMAIN UpperCs : UpperCs[i] = c] ELSE c

\* str.lower()
Lower(s) == [i \in DOMAIN s |-> LowerCh(s[i])]

\* s[i..] (1-based), the empty text when i is past the end
Drop(s, i) == SubSeq(s, i, Len(s))

\* index of the first character at or after i that is no whitespace (Len(s)+1 if none)
RECURSIVE SkipSpace(_, _)
SkipSpace(s, i) == IF i <= Len(s) /\ IsSpace(s[i]) THEN SkipSpace(s, i + 1) ELSE i

\* index of the first character at or after i that is no digit (Len(s)+1 if none)
RECURSIVE SkipDigits(_, _)
SkipDigits(s, i) == IF i <= Len(s) /\ IsDigit(s[i]) THEN SkipDigits(s, i + 1) ELSE i

\* index of the last character at or before i that is no whitespace (0 if none)
RECURSIVE SkipSpaceBack(_, _)
SkipSpaceBack(s, i) == IF i >= 1 /\ IsSpace(s[i]) THEN SkipSpaceBack(s, i - 1) ELSE i

\* str.strip()
Strip(s) == SubSeq(s, SkipSpace(s, 1), SkipSpaceBack(s, Len(s)))

\* re.sub(r'\s+', ' ', s): every run of whitespace becomes one space
RECURSIVE CollapseSpace(_)
CollapseSpace(s) ==
    IF s = <<>> THEN <<>>
    ELSE IF IsSpace(s[1]) THEN <<" ">> \o CollapseSpace(Drop(s, SkipSpace(s, 1)))
    ELSE <<s[1]>> \o CollapseSpace(Tail(s))

\* re.sub(r'\s+', ' ', s).strip()
NormalizeSpace(s) == Strip(CollapseSpace(s))

\* index of the first whitespace character at or after i (Len(s)+1 if none)
RECURSIVE SkipWord(_, _)
SkipWord(s, i) == IF i <= Len(s) /\ ~IsSpace(s[i]) THEN SkipWord(s, i + 1) ELSE i

\* str.split(): the maximal runs of non-whitespace, in order
RECURSIVE Split(_)
Split(s) ==
    LET i == SkipSpace(s, 1)
        j == SkipWord(s, i)
    IN  IF i > Len(s) THEN <<>>
        ELSE <<SubSeq(s, i, j - 1)>> \o Split(Drop(s, j))

\* sep.join(parts)
RECURSIVE Join(_, _)
Join(parts, sep) ==
    IF parts = <<>> THEN <<>>
    ELSE IF Len(parts) = 1 THEN parts[1]
    ELSE parts[1] \o sep \o Join(Tail(parts), sep)

\* s.startswith(p), ignoring case (re.match of a literal under re.IGNORECASE)
StartsWithI(s, p) == Len(s) >= Len(p) /\ Lower(SubSeq(s, 1, Len(p))) = Lower(p)

(***************************************************************************)
(* clean_text                                                              *)
(***************************************************************************)
\* the Counter of the words: number of occurrences of w in words
WordCount(words, w) == Cardinality({i \in DOMAIN words : words[i] = w})

\* sum(1 for count in word_counts.values() if count > 1)
RepeatedWords(words) ==
    Cardinality({w \in {words[i] : i \in DOMAIN words} : WordCount(words, w) > 1})

\* the word-repetition check on a normalized text
RepetitionRejects(text) ==
    /\ Len(text) > 30
    /\ LET words == Split(text)
       IN  /\ Len(words) > 5
           /\ 2 * RepeatedWords(words) > Len(words)

\* re.search(r'(.)\1{6,}', text): some character (no newline) 7 or more times in a row
HasLongRun(text) ==
    \E i \in 1..(Len(text) - 6) :
        /\ text[i] # "\n"
        /\ \A k \in 1..6 : text[i + k] = text[i]

\* [^\w\s\-.,;:()"]
IsSpecialCh(c) ==
    ~(IsWordCh(c) \/ IsSpace(c) \/ c \in {"-", ".", ",", ";", ":", "(", ")", "\""})

SpecialCount(text) == Cardinality({i \in DOMAIN text : IsSpecialCh(text[i])})

\* clean_text with the step that decided: value is the returned text
CleanTrace(text) ==
    IF text = <<>> THEN [value |-> <<>>, step |-> "empty"]
    ELSE LET t == NormalizeSpace(text)
         IN  IF RepetitionRejects(t) THEN [value |-> <<>>, step |-> "repetition"]
             ELSE IF HasLongRun(t) THEN [value |-> <<>>, step |-> "run"]
             ELSE IF t # <<>> /\ 5 * SpecialCount(t) > 3 * Len(t)
                  THEN [value |-> <<>>, step |-> "special"]
             ELSE [value |-> t, step |-> "ok"]

clean_text(text) == CleanTrace(text).value

(***************************************************************************)
(* is_likely_heading                                                       *)
(***************************************************************************)
AllSpaceFrom(s, i) == SkipSpace(s, i) > Len(s)

\* ^\$[\d,]+(\.\d{2})?\s*$
RECURSIVE SkipAmount(_, _)
SkipAmount(s, i) ==
    IF i <= Len(s) /\ (IsDigit(s[i]) \/ s[i] = ",") THEN SkipAmount(s, i + 1) ELSE i

MoneyPattern(s) ==
    /\ Len(s) >= 2
    /\ s[1] = "$"
    /\ LET j == SkipAmount(s, 2)
       IN  /\ j > 2
           /\ \/ AllSpaceFrom(s, j)
              \/ /\ j + 2 <= Len(s)
                 /\ s[j] = "."
                 /\ IsDigit(s[j + 1])
                 /\ IsDigit(s[j + 2])
                 /\ AllSpaceFrom(s, j + 3)

\* ^Page\s+\d+\s*$
PagePattern(s) ==
    /\ StartsWithI(s, <<"P","a","g","e">>)
    /\ LET j == SkipSpace(s, 5)
           k == SkipDigits(s, j)
       IN  j > 5 /\ k > j /\ AllSpaceFrom(s, k)

\* ^[^a-zA-Z]*$
NoLetterPattern(s) == \A i \in DOMAIN s : ~IsAlpha(s[i])

\* ^[^\w\s]*$
OnlySpecialPattern(s) == \A i \in DOMAIN s : ~IsWordCh(s[i]) /\ ~IsSpace(s[i])

\* strict_non_heading_patterns, each under re.match(..., re.IGNORECASE)
StrictNonHeading(s) ==
    MoneyPattern(s) \/ PagePattern(s) \/ NoLetterPattern(s) \/ OnlySpecialPattern(s)

SectionWords ==
    { <<"C","h","a","p","t","e","r">>, <<"S","e","c","t","i","o","n">>, <<"P","a","r","t">>,
      <<"A","p","p","e","n","d","i","x">>, <<"S","u","m","m","a","r","y">>,
      <<"B","a","c","k","g","r","o","u","n","d">>,
      <<"I","n","t","r","o","d","u","c","t","i","o","n">>,
      <<"C","o","n","c","l","u","s","i","o","n">>, <<"R","e","f","e","r","e","n","c","e">>,
      <<"B","i","b","l","i","o","g","r","a","p","h","y">> }

FrontMatterWords ==
    { <<"A","b","s","t","r","a","c","t">>,
      <<"E","x","e","c","u","t","i","v","e"," ","S","u","m","m","a","r","y">>,
      <<"T","a","b","l","e"," ","o","f"," ","C","o","n","t","e","n","t","s">>,
      <<"A","c","k","n","o","w","l","e","d","g","m","e","n","t">> }

\* ^(Chapter|Section|...|References?|Bibliography)\s*[A-Z0-9]*  (the tail matches the
\* empty string, so the prefix decides)
SectionPattern(s) == \E w \in SectionWords : StartsWithI(s, w)

\* ^\d+(\.\d+)*\s+[A-Za-z]
RECURSIVE SkipNumbering(_, _)
SkipNumbering(s, j) ==
    IF j + 1 <= Len(s) /\ s[j] = "." /\ IsDigit(s[j + 1])
    THEN SkipNumbering(s, SkipDigits(s, j + 1))
    ELSE j

NumberedPattern(s) ==
    LET j == SkipDigits(s, 1)
        k == SkipNumbering(s, j)
        m == SkipSpace(s, k)
    IN  j > 1 /\ m > k /\ m <= Len(s) /\ IsAlpha(s[m])

\* ^[A-Z]{2,}(\s+[A-Z]{2,})*\s*$ under re.IGNORECASE: words of two or more letters
AllCapsPattern(s) ==
    /\ s # <<>>
    /\ IsAlpha(s[1])
    /\ \A w \in {Split(s)[i] : i \in DOMAIN Split(s)} :
          Len(w) >= 2 /\ \A i \in DOMAIN w : IsAlpha(w[i])

\* ^(Abstract|Executive Summary|Table of Contents|Acknowledgments?)
FrontMatterPattern(s) == \E w \in FrontMatterWords : StartsWithI(s, w)

\* strong_heading_patterns, each under re.match(..., re.IGNORECASE)
StrongHeading(s) ==
    SectionPattern(s) \/ NumberedPattern(s) \/ AllCapsPattern(s) \/ FrontMatterPattern(s)

\* ^\d+\.\d+\s*$
BareDecimalPattern(s) ==
    LET j == SkipDigits(s, 1)
        k == SkipDigits(s, j + 1)
    IN  j > 1 /\ j <= Len(s) /\ s[j] = "." /\ k > j + 1 /\ AllSpaceFrom(s, k)

\* ^[A-Z]\.\d+\s*$
SectionRefPattern(s) ==
    /\ Len(s) >= 3
    /\ IsAlpha(s[1])
    /\ s[2] = "."
    /\ LET k == SkipDigits(s, 3) IN k > 3 /\ AllSpaceFrom(s, k)

\* ^\d{4}[\s-]\d{4}\s*$
DateRangePattern(s) ==
    /\ Len(s) >= 9
    /\ \A i \in 1..4 : IsDigit(s[i]) /\ IsDigit(s[i + 5])
    /\ (IsSpace(s[5]) \/ s[5] = "-")
    /\ AllSpaceFrom(s, 10)

\* ^\(\s*[^)]*\s*\)\s*$
ParenthesizedPattern(s) ==
    /\ Len(s) >= 2
    /\ s[1] = "("
    /\ \E j \in 2..Len(s) :
          /\ s[j] = ")"
          /\ \A i \in 2..(j - 1) : s[i] # ")"
          /\ AllSpaceFrom(s, j + 1)

MonthWords ==
    { <<"J","a","n","u","a","r","y">>, <<"F","e","b","r","u","a","r","y">>,
      <<"M","a","r","c","h">>, <<"A","p","r","i","l">>, <<"M","a","y">>, <<"J","u","n","e">>,
      <<"J","u","l","y">>, <<"A","u","g","u","s","t">>,
      <<"S","e","p","t","e","m","b","e","r">>, <<"O","c","t","o","b","e","r">>,
      <<"N","o","v","e","m","b","e","r">>, <<"D","e","c","e","m","b","e","r">> }

\* ^(January|...|December)\s+\d{1,2},?\s+\d{4}\s*$
CalendarDatePattern(s) ==
    \E w \in MonthWords :
        /\ StartsWithI(s, w)
        /\ LET a == Len(w) + 1
               b == SkipSpace(s, a)
               c == SkipDigits(s, b)
               d == IF c <= Len(s) /\ s[c] = "," THEN c + 1 ELSE c
               e == SkipSpace(s, d)
               f == SkipDigits(s, e)
           IN  /\ b > a
               /\ c - b \in {1, 2}
               /\ e > d
               /\ f - e = 4
               /\ AllSpaceFrom(s, f)

\* loose_non_heading_patterns, each under re.match(..., re.IGNORECASE)
LooseNonHeading(s) ==
    \/ BareDecimalPattern(s)
    \/ SectionRefPattern(s)
    \/ DateRangePattern(s)
    \/ ParenthesizedPattern(s)
    \/ CalendarDatePattern(s)

\* str.istitle()
IsTitle(s) ==
    /\ \E i \in DOMAIN s : IsAlpha(s[i])
    /\ \A i \in DOMAIN s :
          /\ s[i] \in UpperSet => (i = 1 \/ ~IsAlpha(s[i - 1]))
          /\ s[i] \in LowerSet => (i > 1 /\ IsAlpha(s[i - 1]))

\* re.search(r'[.]{2,}', s)
HasDotRun(s) == \E i \in 1..(Len(s) - 1) : s[i] = "." /\ s[i + 1] = "."

\* font_size > body_size * 1.2
SignificantFontAdvantage(font_size, body_size) == 5 * font_size > 6 * body_size

\* font_size > body_size * 1.05
ModerateFontAdvantage(font_size, body_size) == 20 * font_size > 21 * body_size

is_likely_heading(text, font_size, is_bold, body_size, heading_sizes) ==
    IF text = <<>> \/ Len(Strip(text)) < 2 THEN FALSE
    ELSE LET clean == clean_text(text)
         IN  IF clean = <<>> THEN FALSE
             ELSE IF Len(Split(clean)) > 25 THEN FALSE
             ELSE IF Len(clean) > 200 THEN FALSE
             ELSE IF StrictNonHeading(clean) THEN FALSE
             ELSE IF StrongHeading(clean) THEN TRUE
             ELSE IF SignificantFontAdvantage(font_size, body_size) THEN TRUE
             ELSE IF is_bold /\ ModerateFontAdvantage(font_size, body_size) THEN TRUE
             ELSE IF /\ is_bold
                     /\ font_size >= body_size
                     /\ (clean[1] \in UpperSet \/ IsTitle(clean))
                  THEN ~LooseNonHeading(clean)
             ELSE /\ ModerateFontAdvantage(font_size, body_size)
                  /\ clean[1] \in UpperSet
                  /\ Len(Split(clean)) <= 8
                  /\ ~HasDotRun(clean)

(***************************************************************************)
(* extract_outline_heuristically                                           *)
(*                                                                         *)
(* A span is [text, size2, hasSize, bold]: size2 is twice the font size in *)
(* points (so that x.5 sizes exist and round() matters), hasSize says the  *)
(* span dict carries the "size" key, bold says its font name contains      *)
(* "bold".  A line is a sequence of spans, a block a sequence of lines, a  *)
(* page [err, blocks] where err names the exception page.get_text raises   *)
(* ("none" when it returns).                                               *)
(***************************************************************************)
\* round(n / d) for n >= 0, d > 0: Python rounds halves to the even integer
Round(n, d) ==
    LET q == n \div d
        r == n % d
    IN  IF 2 * r < d THEN q
        ELSE IF 2 * r > d THEN q + 1
        ELSE IF q % 2 = 0 THEN q ELSE q + 1

RECURSIVE Sum(_)
Sum(xs) == IF xs = <<>> THEN 0 ELSE xs[1] + Sum(Tail(xs))

RECURSIVE Flatten(_)
Flatten(xss) == IF xss = <<>> THEN <<>> ELSE xss[1] \o Flatten(Tail(xss))

RECURSIVE SelectSpans(_)
SelectSpans(spans) ==
    IF spans = <<>> THEN <<>>
    ELSE IF Strip(spans[1].text) # <<>> THEN <<spans[1]>> \o SelectSpans(Tail(spans))
    ELSE SelectSpans(Tail(spans))

\* the spans of a block whose stripped text is not empty, line by line
TextSpans(b) == SelectSpans(Flatten(b))

\* span["size"] raises KeyError for a span with text and no size
BlockRaises(b) == \E i \in DOMAIN TextSpans(b) : ~TextSpans(b)[i].hasSize

\* the entry appended to all_text_blocks for block b of page number page
TextBlock(b, page) ==
    LET sp == TextSpans(b)
    IN  [ text |-> Join([i \in DOMAIN sp |-> Strip(sp[i].text)], <<" ">>),
          font_size |-> Round(Sum([i \in DOMAIN sp |-> Round(sp[i].size2, 2)]), Len(sp)),
          is_bold |-> \E i \in DOMAIN sp : sp[i].bold,
          page |-> page ]

\* the blocks one page contributes: those before the first block that raises
RECURSIVE PageTextBlocks(_, _)
PageTextBlocks(blocks, page) ==
    IF blocks = <<>> THEN <<>>
    ELSE IF BlockRaises(blocks[1]) THEN <<>>
    ELSE IF TextSpans(blocks[1]) = <<>> THEN PageTextBlocks(Tail(blocks), page)
    ELSE <<TextBlock(blocks[1], page)>> \o PageTextBlocks(Tail(blocks), page)

\* pass 1: all_text_blocks over pages[n..], page numbers from n
RECURSIVE CollectBlocks(_, _)
CollectBlocks(pages, n) ==
    IF n > Len(pages) THEN <<>>
    ELSE (IF pages[n].err # "none" THEN <<>> ELSE PageTextBlocks(pages[n].blocks, n))
         \o CollectBlocks(pages, n + 1)

\* font_counts[size]
FontCount(blocks, size) == Cardinality({i \in DOMAIN blocks : blocks[i].font_size = size})

FontSizes(blocks) == {blocks[i].font_size : i \in DOMAIN blocks}

FirstSeen(blocks, size) == CHOOSE i \in DOMAIN blocks :
    blocks[i].font_size = size /\ \A j \in 1..(i - 1) : blocks[j].font_size # size

\* font_counts.most_common(1)[0][0]: the highest count, the first inserted on a tie
BodyTextSize(blocks) ==
    CHOOSE s \in FontSizes(blocks) :
        \A t \in FontSizes(blocks) \ {s} :
            \/ FontCount(blocks, s) > FontCount(blocks, t)
            \/ /\ FontCount(blocks, s) = FontCount(blocks, t)
               /\ FirstSeen(blocks, s) < FirstSeen(blocks, t)

\* sorted(S, reverse=True)
RECURSIVE SortedDesc(_)
SortedDesc(S) ==
    IF S = {} THEN <<>>
    ELSE LET m == CHOOSE x \in S : \A y \in S : x >= y
         IN  <<m>> \o SortedDesc(S \ {m})

HeadingSizes(blocks) ==
    SortedDesc({s \in FontSizes(blocks) : s > BodyTextSize(blocks)})

\* SizeToLevel without the loop over heading_sizes[2:]: only the top three get a level
SizeToLevelTopThree(heading_sizes) ==
    [s \in {heading_sizes[i] : i \in DOMAIN heading_sizes \cap 1..3} |->
        IF s = heading_sizes[1] THEN "H1"
        ELSE IF s = heading_sizes[2] THEN "H2" ELSE "H3"]

\* size_to_level, a function on the sizes it has a key for
SizeToLevel(heading_sizes) ==
    IF heading_sizes = <<>> THEN <<>>
    ELSE IF Len(heading_sizes) >= 3
         THEN [s \in {heading_sizes[i] : i \in DOMAIN heading_sizes} |->
                  IF s = heading_sizes[1] THEN "H1"
                  ELSE IF s = heading_sizes[2] THEN "H2" ELSE "H3"]
    ELSE IF Len(heading_sizes) = 2
         THEN [s \in {heading_sizes[1], heading_sizes[2]} |->
                  IF s = heading_sizes[1] THEN "H1" ELSE "H2"]
    ELSE [s \in {heading_sizes[1]} |-> "H1"]

\* ResolveLevel without the size test of the fallback: any bold block becomes H3
ResolveLevelAnyBold(block, size_to_level, body_text_size) ==
    IF block.font_size \in DOMAIN size_to_level THEN size_to_level[block.font_size]
    ELSE IF block.is_bold THEN "H3"
    ELSE "none"

\* the level of a block that is_likely_heading accepted ("none": left out)
ResolveLevel(block, size_to_level, body_text_size) ==
    IF block.font_size \in DOMAIN size_to_level THEN size_to_level[block.font_size]
    ELSE IF block.is_bold /\ block.font_size >= body_text_size THEN "H3"
    ELSE "none"

\* the two gates of pass 2 on the cleaned text of a block: clean_text kept it and
\* is_likely_heading accepts it
Accepted(clean, block, body_text_size, heading_sizes) ==
    /\ clean # <<>>
    /\ is_likely_heading(clean, block.font_size, block.is_bold, body_text_size, heading_sizes)

\* whether pass 2 gets as far as the level of this block
Classified(block, body_text_size, heading_sizes) ==
    Accepted(clean_text(block.text), block, body_text_size, heading_sizes)

\* HeadingKey without lower(): duplicates that differ in case are kept
HeadingKeyCaseSensitive(page, clean) == <<page, clean>>

\* heading_key
HeadingKey(page, clean) == <<page, Lower(clean)>>

\* pass 2 from block i on: the entries appended, each with the index of its block
RECURSIVE ClassifyBlocks(_, _, _, _, _, _)
ClassifyBlocks(blocks, i, body_text_size, heading_sizes, size_to_level, processed_headings) ==
    IF i > Len(blocks) THEN <<>>
    ELSE LET block == blocks[i]
             clean == clean_text(block.text)
             level == ResolveLevel(block, size_to_level, body_text_size)
             heading_key == HeadingKey(block.page, clean)
             skip == ClassifyBlocks(blocks, i + 1, body_text_size, heading_sizes,
                                    size_to_level, processed_headings)
         IN  IF ~Accepted(clean, block, body_text_size, heading_sizes) THEN skip
             ELSE IF level = "none" THEN skip
             ELSE IF heading_key \in processed_headings THEN skip
             ELSE <<[level |-> level, text |-> clean, page |-> block.page, src |-> i]>>
                  \o ClassifyBlocks(blocks, i + 1, body_text_size, heading_sizes,
                                    size_to_level, processed_headings \cup {heading_key})

\* the outline entries with the block each came from
HeuristicTrace(doc) ==
    LET blocks == CollectBlocks(doc.pages, 1)
    IN  IF blocks = <<>> THEN <<>>
        ELSE ClassifyBlocks(blocks, 1, BodyTextSize(blocks), HeadingSizes(blocks),
                            SizeToLevel(HeadingSizes(blocks)), {})

Entry(e) == [level |-> e.level, text |-> e.text, page |-> e.page]

\* extract_outline_heuristically with the outline sorted by level before it is returned
ExtractSortedByLevel(doc) ==
    LET trace == HeuristicTrace(doc)
        at(level) == SelectSeq(trace, LAMBDA e : e.level = level)
        sorted == at("H1") \o at("H2") \o at("H3")
    IN  [i \in DOMAIN sorted |-> Entry(sorted[i])]

extract_outline_heuristically(doc) ==
    LET trace == HeuristicTrace(doc) IN [i \in DOMAIN trace |-> Entry(trace[i])]

(***************************************************************************)
(* get_title                                                               *)
(*                                                                         *)
(* A document is [metaTitle, toc, pages, extraPages, fail]: metaTitle is   *)
(* the metadata title (<<>> when there is none), toc the native table of   *)
(* contents as [level, text, page] entries, pages the pages that carry     *)
(* content, extraPages the number of empty pages after them, and fail the  *)
(* call of the library that raises for this file ("none", "open", "toc").  *)
(* A call's outcome is [raised, value]: raised names the exception that    *)
(* leaves the call, "none" when it returns value.                          *)
(***************************************************************************)
PageLimit == 50

UntitledDocument == <<"U","n","t","i","t","l","e","d"," ","D","o","c","u","m","e","n","t">>

\* the exception classes get_title swallows
TitleExceptions == {"IndexError", "ValueError"}

\* the handler of process_single_pdf catching what get_title catches
WorkerExceptionsNarrow == {"IndexError", "ValueError"}

\* the exception classes the handler of process_single_pdf catches: every subclass
\* of Exception, which all the exceptions of the model are
WorkerExceptions == {"FileDataError", "IndexError", "ValueError", "KeyError", "RuntimeError"}

page_count(doc) == Len(doc.pages) + doc.extraPages

RECURSIVE SelectLines(_)
SelectLines(lines) ==
    IF lines = <<>> THEN <<>>
    ELSE IF lines[1] # <<>> THEN <<lines[1]>> \o SelectLines(Tail(lines))
    ELSE SelectLines(Tail(lines))

\* the lines of a page that have spans, block by block
SpanLines(page) == SelectLines(Flatten(page.blocks))

\* " ".join(s['text'].strip() for s in l['spans'])
LineText(line) == Join([i \in DOMAIN line |-> Strip(line[i].text)], <<" ">>)

\* round(l['spans'][0]['size'])
LineSize(line) == Round(line[1].size2, 2)

RECURSIVE SelectSize(_, _)
SelectSize(lines, size) ==
    IF lines = <<>> THEN <<>>
    ELSE IF LineSize(lines[1]) = size
         THEN <<LineText(lines[1])>> \o SelectSize(Tail(lines), size)
    ELSE SelectSize(Tail(lines), size)

\* the text of the lines of the largest size, joined and normalized
LargestLinesText(lines) ==
    LET largest_size == CHOOSE x \in {LineSize(lines[i]) : i \in DOMAIN lines} :
                            \A i \in DOMAIN lines : x >= LineSize(lines[i])
    IN  NormalizeSpace(Join(SelectSize(lines, largest_size), <<" ">>))

\* the exception the body of the try block raises on the first page, "none" if it
\* runs to its end
FirstPageRaises(doc) ==
    IF page_count(doc) = 0 THEN "IndexError"
    ELSE IF doc.pages = <<>> THEN "none"
    ELSE IF doc.pages[1].err # "none" THEN doc.pages[1].err
    ELSE IF \E i \in DOMAIN SpanLines(doc.pages[1]) : ~SpanLines(doc.pages[1])[i][1].hasSize
         THEN "KeyError"
    ELSE "none"

\* title_text after the try statement, when no exception leaves it
FirstPageTitle(doc) ==
    IF FirstPageRaises(doc) # "none" \/ doc.pages = <<>> THEN UntitledDocument
    ELSE IF SpanLines(doc.pages[1]) = <<>> THEN UntitledDocument
    ELSE LargestLinesText(SpanLines(doc.pages[1]))

get_title(doc) ==
    IF doc.metaTitle # <<>> /\ Strip(doc.metaTitle) # <<>>
    THEN [raised |-> "none", value |-> NormalizeSpace(doc.metaTitle)]
    ELSE IF FirstPageRaises(doc) \notin TitleExceptions \cup {"none"}
         THEN [raised |-> FirstPageRaises(doc), value |-> <<>>]
    ELSE [raised |-> "none",
          value |-> IF Len(FirstPageTitle(doc)) > 4 THEN FirstPageTitle(doc)
                    ELSE UntitledDocument]

(***************************************************************************)
(* extract_outline_from_toc                                                *)
(***************************************************************************)
LevelName(level) == CASE level = 1 -> "H1" [] level = 2 -> "H2" [] level = 3 -> "H3"

\* TocEntries with deeper entries flattened to H3 instead of dropped
RECURSIVE TocEntriesFlattened(_)
TocEntriesFlattened(toc) ==
    IF toc = <<>> THEN <<>>
    ELSE IF 1 <= toc[1].level
         THEN <<[level |-> IF toc[1].level >= 3 THEN "H3" ELSE LevelName(toc[1].level),
                 text |-> Strip(toc[1].text), page |-> toc[1].page]>>
              \o TocEntriesFlattened(Tail(toc))
    ELSE TocEntriesFlattened(Tail(toc))

RECURSIVE TocEntries(_)
TocEntries(toc) ==
    IF toc = <<>> THEN <<>>
    ELSE IF 1 <= toc[1].level /\ toc[1].level <= 3
         THEN <<[level |-> LevelName(toc[1].level), text |-> Strip(toc[1].text),
                 page |-> toc[1].page]>> \o TocEntries(Tail(toc))
    ELSE TocEntries(Tail(toc))

\* the returned value is [none, list]: none says the function returned None
TocOutline(toc) ==
    IF toc = <<>> THEN [none |-> TRUE, list |-> <<>>]
    ELSE IF TocEntries(toc) = <<>> THEN [none |-> TRUE, list |-> <<>>]
    ELSE [none |-> FALSE, list |-> TocEntries(toc)]

extract_outline_from_toc(doc) ==
    IF doc.fail = "toc" THEN [raised |-> "RuntimeError", value |-> [none |-> TRUE, list |-> <<>>]]
    ELSE [raised |-> "none", value |-> TocOutline(doc.toc)]

(***************************************************************************)
(* process_single_pdf                                                      *)
(*                                                                         *)
(* A path is <<directory, file name>>.  The text of a synthetic entry is a *)
(* sequence whose first element is the literal of the source and whose     *)
(* second, if any, the exception's description.                            *)
(***************************************************************************)
basename(pdf_path) == pdf_path[Len(pdf_path)]

LimitText == <<"Error: PDF exceeds 50 page limit">>

ErrorText(e) == <<"Error processing file: ", e>>

ErrorRecord(pdf_path, text) ==
    [ path |-> pdf_path, status |-> "error",
      data |-> [title |-> basename(pdf_path),
                outline |-> <<[level |-> "H1", text |-> text, page |-> 1]>>] ]

\* ExceedsLimit with >= for >
ExceedsLimitInclusive(doc) == page_count(doc) >= PageLimit

\* UseHeuristic that also distrusts a table of contents of a single entry
UseHeuristicWhenShort(outline) == outline.none \/ Len(outline.list) < 2

\* if doc.page_count > 50
ExceedsLimit(doc) == page_count(doc) > PageLimit

\* if not outline, on the value extract_outline_from_toc returned
UseHeuristic(outline) == outline.none \/ outline.list = <<>>

\* the try block: [raised, value, calls], calls being the functions it invoked
TryBlock(pdf_path, doc) ==
    IF doc.fail = "open" THEN [raised |-> "FileDataError", value |-> <<>>, calls |-> {}]
    ELSE IF ExceedsLimit(doc)
         THEN [raised |-> "none", value |-> ErrorRecord(pdf_path, LimitText), calls |-> {}]
    ELSE LET title == get_title(doc)
             toc == extract_outline_from_toc(doc)
         IN  IF title.raised # "none"
             THEN [raised |-> title.raised, value |-> <<>>, calls |-> {"get_title"}]
             ELSE IF toc.raised # "none"
             THEN [raised |-> toc.raised, value |-> <<>>,
                   calls |-> {"get_title", "extract_outline_from_toc"}]
             ELSE IF UseHeuristic(toc.value)
             THEN [raised |-> "none",
                   value |-> [path |-> pdf_path, status |-> "success",
                              data |-> [title |-> title.value,
                                        outline |-> extract_outline_heuristically(doc)]],
                   calls |-> {"get_title", "extract_outline_from_toc",
                              "extract_outline_heuristically"}]
             ELSE [raised |-> "none",
                   value |-> [path |-> pdf_path, status |-> "success",
                              data |-> [title |-> title.value, outline |-> toc.value.list]],
                   calls |-> {"get_title", "extract_outline_from_toc"}]

\* process_single_pdf with what it invoked: the handler turns a caught exception
\* into the error record, any other leaves the function
ProcessTrace(pdf_path, doc) ==
    LET t == TryBlock(pdf_path, doc)
    IN  IF t.raised # "none" /\ t.raised \in WorkerExceptions
        THEN [raised |-> "none", value |-> ErrorRecord(pdf_path, ErrorText(t.raised)),
              calls |-> t.calls]
        ELSE t

process_single_pdf(pdf_path, doc) == ProcessTrace(pdf_path, doc).value

(***************************************************************************)
(* main: the pool and the output files                                     *)
(***************************************************************************)
NDocs == 2

Files == 1..NDocs

DigitCs == <<"0","1","2","3","4","5","6","7","8","9">>

\* the name of the d-th file of the input directory (d < 10)
FileName(d) == <<"d","o","c">> \o <<DigitCs[d + 1]>> \o <<".","p","d","f">>

\* pdf_files[d]
PdfPath(d) == <<<<"i","n","p","u","t">>, FileName(d)>>

\* Path(pdf_path).stem + ".json"
OutputName(pdf_path) ==
    SubSeq(basename(pdf_path), 1, Len(basename(pdf_path)) - 4) \o <<".","j","s","o","n">>

(***************************************************************************)
(* Inputs                                                                  *)
(***************************************************************************)
MaxBlocks == 3

MaxToc == 3

MaxWords == 6

MaxProfileBlocks == 5

Span(text, size2, bold) == [text |-> text, size2 |-> size2, hasSize |-> TRUE, bold |-> bold]

NoSizeSpan(text) == [text |-> text, size2 |-> 0, hasSize |-> FALSE, bold |-> FALSE]

OverviewText == <<"1",".","1"," ","O","v","e","r","v","i","e","w">>

IntroText == <<"I","n","t","r","o">>

IntroLowerText == <<"i","n","t","r","o">>

BodyText == <<"s","o","m","e"," ","b","o","d","y"," ","t","e","x","t"," ","1",".">>

ResultsText == <<"R","e","s","u","l","t","s"," ","2","0","2","0">>

PageText == <<"P","a","g","e"," ","3">>

\* one line of one span
Block1(text, size2, bold) == <<<<Span(text, size2, bold)>>>>

\* the blocks the documents are made of (sizes are twice the point size)
BlockKinds ==
    { Block1(BodyText, 20, FALSE),
      Block1(OverviewText, 20, TRUE),
      Block1(OverviewText, 16, TRUE),
      Block1(<<" ">> \o IntroText \o <<"\t">>, 28, FALSE),
      Block1(IntroLowerText, 24, TRUE),
      <<<<Span(<<"R","e","s","u","l","t","s">>, 23, FALSE)>>,
        <<Span(<<" ">>, 40, TRUE), Span(<<"2","0","2","0">>, 25, FALSE)>>>> }

PageNumbers == {1, 2, 3}

\* n blocks, each with the page it is on, pages ascending
Placements(n) ==
    {s \in [1..n -> BlockKinds \X PageNumbers] : \A i \in 1..(n - 1) : s[i][2] <= s[i + 1][2]}

RECURSIVE BlocksOn(_, _)
BlocksOn(placed, p) ==
    IF placed = <<>> THEN <<>>
    ELSE (IF placed[1][2] = p THEN <<placed[1][1]>> ELSE <<>>) \o BlocksOn(Tail(placed), p)

PagesOf(placed) == [p \in PageNumbers |-> [err |-> "none", blocks |-> BlocksOn(placed, p)]]

\* documents without metadata title or table of contents
HeurDocs ==
    { [metaTitle |-> <<>>, toc |-> <<>>, pages |-> PagesOf(placed), extraPages |-> 0,
       fail |-> "none"] : placed \in UNION {Placements(n) : n \in 0..MaxBlocks} }

TocEntry(level, text, page) == [level |-> level, text |-> text, page |-> page]

TocEntryKinds ==
    { TocEntry(1, IntroText, 1),
      TocEntry(2, <<"D","e","t","a","i","l","s">>, 2),
      TocEntry(4, <<"D","e","e","p">>, 5),
      TocEntry(3, <<" ">> \o IntroLowerText \o <<" ">>, 1),
      TocEntry(0, <<"Z","e","r","o">>, 1) }

TocInputs == UNION {[1..n -> TocEntryKinds] : n \in 0..MaxToc}

OnePage == <<[err |-> "none", blocks |-> <<Block1(BodyText, 20, FALSE), Block1(ResultsText, 32, FALSE)>>]>>

\* documents with a table of contents, within the page limit or over it
TocDocs ==
    { [metaTitle |-> <<"M","y"," "," ","R","e","p","o","r","t">>, toc |-> toc, pages |-> OnePage,
       extraPages |-> extra, fail |-> "none"] :
          toc \in TocInputs, extra \in {0, PageLimit} }

\* a first page whose get_text raises ValueError, then a readable page
ValueErrorPages == <<[err |-> "ValueError", blocks |-> <<>>]>> \o OnePage

\* a first page whose get_text raises RuntimeError, then a readable page
RuntimeErrorPages == <<[err |-> "RuntimeError", blocks |-> <<>>]>> \o OnePage

\* a first page whose second block has a span without size, then a readable page
NoSizePages ==
    <<[err |-> "none", blocks |-> <<Block1(ResultsText, 32, FALSE),
                                    <<<<NoSizeSpan(IntroText)>>>>,
                                    Block1(OverviewText, 20, TRUE)>>]>> \o OnePage

\* a page with a block of one empty line, an image block and a page number
SparsePages == <<[err |-> "none", blocks |-> <<<<<<>>>>, <<>>, Block1(PageText, 20, FALSE)>>]>>

EdgePages == {<<>>, OnePage, ValueErrorPages, RuntimeErrorPages, NoSizePages, SparsePages}

ExampleToc ==
    <<TocEntry(1, IntroText, 1), TocEntry(2, <<"D","e","t","a","i","l","s">>, 2),
      TocEntry(4, <<"D","e","e","p">>, 5)>>

\* documents at the edges: titles, failures of the library, page counts around the limit
EdgeDocs ==
    { [metaTitle |-> title, toc |-> toc, pages |-> pages, extraPages |-> extra, fail |-> fail] :
          title \in {<<>>, <<" ", "\t">>, <<"M","y"," "," ","R","e","p","o","r","t">>},
          toc \in {<<>>, ExampleToc, <<TocEntry(4, <<"D","e","e","p">>, 5)>>},
          pages \in EdgePages,
          extra \in {0, PageLimit - 2, PageLimit - 1, PageLimit},
          fail \in {"none", "open", "toc"} }

DocInputs == HeurDocs \cup TocDocs \cup EdgeDocs

\* the documents of the batches
BatchDocs ==
    { d \in EdgeDocs :
        /\ d.metaTitle = <<>>
        /\ \/ /\ d.pages \in {ValueErrorPages, RuntimeErrorPages, NoSizePages}
              /\ d.toc = <<>> /\ d.extraPages = 0 /\ d.fail = "none"
           \/ /\ d.pages = ValueErrorPages
              /\ d.toc = <<>> /\ d.extraPages = 0 /\ d.fail # "none"
           \/ /\ d.pages = ValueErrorPages
              /\ d.toc = ExampleToc /\ d.extraPages \in {0, PageLimit} /\ d.fail = "none"
           \/ /\ d.pages = ValueErrorPages
              /\ d.toc = <<>> /\ d.extraPages = PageLimit /\ d.fail = "none" }

Vocabulary == {<<"a","l","p","h","a">>, <<"b","r","a","v","o">>, <<"c","h","a","r","l","i","e">>}

\* texts for clean_text: words of the vocabulary, and texts the later steps reject
CleanInputs ==
    { Join(ws, <<" ">>) : ws \in UNION {[1..n -> Vocabulary] : n \in 0..MaxWords} }
    \cup { <<"A","A","A","A","A","A","A","A","A","A"," ","p","r","i","c","i","n","g">>,
           <<"#","$","%","&">>, <<" ", "\t">>,
           <<" ">> \o IntroText \o <<" ", "\n">> \o IntroText }

ProfileSizes == {10, 12, 14, 16, 18}

\* all_text_blocks for the profiler: only the font sizes vary
ProfileInputs ==
    { [i \in DOMAIN sizes |-> [text |-> IntroText, font_size |-> sizes[i], is_bold |-> FALSE, page |-> 1]] :
          sizes \in UNION {[1..n -> ProfileSizes] : n \in 1..MaxProfileBlocks} }

(***************************************************************************)
(* The batch: main hands every file to a worker of the pool, collects the  *)
(* results and then writes one output file per result, in input order.     *)
(***************************************************************************)
NoResult == [path |-> <<>>, status |-> "none", data |-> [title |-> <<>>, outline |-> <<>>]]

Init ==
    /\ docs \in [Files -> BatchDocs]
    /\ pc = [d \in Files |-> "queued"]
    /\ results = [d \in Files |-> NoResult]
    /\ calls = [d \in Files |-> {}]
    /\ poolError = FALSE
    /\ written = <<>>
    /\ fn = "batch"
    /\ arg = <<>>
    /\ ret = <<>>

\* the pool takes what the call for file d produced: its record, or the exception
\* that left it, which the pool raises in main
Deliver(d, t) ==
    /\ pc' = [pc EXCEPT ![d] = IF t.raised = "none" THEN "done" ELSE "raised"]
    /\ results' = [results EXCEPT ![d] = IF t.raised = "none" THEN t.value ELSE @]
    /\ calls' = [calls EXCEPT ![d] = t.calls]
    /\ poolError' = (t.raised # "none")

\* a worker runs process_single_pdf on file d
Worker(d) ==
    /\ pc[d] = "queued"
    /\ ~poolError
    /\ Deliver(d, ProcessTrace(PdfPath(d), docs[d]))
    /\ UNCHANGED <<docs, written, fn, arg, ret>>

\* the loop over results writes the next output file
WriteOutput ==
    /\ \A d \in Files : pc[d] = "done"
    /\ Len(written) < NDocs
    /\ LET result == results[Len(written) + 1]
       IN  written' = Append(written, [name |-> OutputName(result.path), data |-> result.data])
    /\ UNCHANGED <<docs, pc, results, calls, poolError, fn, arg, ret>>

Next == (\E d \in Files : Worker(d)) \/ WriteOutput

Spec == Init /\ [][Next]_vars

(***************************************************************************)
(* One function applied to one input: fn names the function once it has    *)
(* returned, arg is its argument, ret what it returned.                    *)
(***************************************************************************)
InitCall(inputs) ==
    /\ arg \in inputs
    /\ fn = "idle"
    /\ ret = <<>>
    /\ docs = <<>>
    /\ pc = <<>>
    /\ results = <<>>
    /\ calls = <<>>
    /\ poolError = FALSE
    /\ written = <<>>

Return(name, value) ==
    /\ fn = "idle"
    /\ fn' = name
    /\ ret' = value
    /\ UNCHANGED <<arg, docs, pc, results, calls, poolError, written>>

\* process_single_pdf on one document
InitDoc == InitCall(DocInputs)

CallProcess == Return("process_single_pdf", ProcessTrace(PdfPath(1), arg))

SpecDoc == InitDoc /\ [][CallProcess]_vars

\* extract_outline_heuristically on one document, with the values it computes on the way
InitHeur == InitCall(HeurDocs)

HeuristicValues(blocks, trace) ==
    [ blocks |-> blocks,
      body_text_size |-> IF blocks = <<>> THEN 0 ELSE BodyTextSize(blocks),
      heading_sizes |-> IF blocks = <<>> THEN <<>> ELSE HeadingSizes(blocks),
      size_to_level |-> IF blocks = <<>> THEN <<>> ELSE SizeToLevel(HeadingSizes(blocks)),
      trace |-> trace,
      outline |-> [i \in DOMAIN trace |-> Entry(trace[i])] ]

HeuristicRun(doc) == HeuristicValues(CollectBlocks(doc.pages, 1), HeuristicTrace(doc))

CallHeuristic == Return("extract_outline_heuristically", HeuristicRun(arg))

SpecHeur == InitHeur /\ [][CallHeuristic]_vars

\* the profiler of extract_outline_heuristically on the collected blocks
InitProfile == InitCall(ProfileInputs)

Profile(blocks) ==
    [ body_text_size |-> BodyTextSize(blocks),
      heading_sizes |-> HeadingSizes(blocks),
      size_to_level |-> SizeToLevel(HeadingSizes(blocks)) ]

CallProfile == Return("profile", Profile(arg))

SpecProfile == InitProfile /\ [][CallProfile]_vars

\* extract_outline_from_toc on one table of contents
InitToc == InitCall(TocInputs)

CallToc == Return("extract_outline_from_toc", TocOutline(arg))

SpecToc == InitToc /\ [][CallToc]_vars

\* clean_text on one text
InitClean == InitCall(CleanInputs)

CallCleanText == Return("clean_text", CleanTrace(arg))

SpecClean == InitClean /\ [][CallCleanText]_vars

(***************************************************************************)
(* Properties                                                              *)
(***************************************************************************)
Returned(name) == fn = name

Outline == ret.value.data.outline

Invoked(name) == name \in ret.calls

\* the entries of depth 1 to 3 of a table of contents, in order, depth d as "H<d>"
DepthMapped(toc) ==
    LET kept == SelectSeq(toc, LAMBDA e : e.level \in {1, 2, 3})
    IN  [i \in DOMAIN kept |-> [level |-> <<"H1", "H2", "H3">>[kept[i].level],
                                text |-> Strip(kept[i].text),
                                page |-> kept[i].page]]

UsableToc(doc) == \E i \in DOMAIN doc.toc : doc.toc[i].level \in {1, 2, 3}

HasMetaTitle(doc) == Strip(doc.metaTitle) # <<>>

\* C1 as stated, for documents that open, whose table of contents can be read and
\* whose title comes from the metadata: with a table of contents that has an entry
\* of depth 1 to 3, heuristic extraction is not invoked and the outline of the
\* record is the outline of the TOC adapter.
C1_TocOutlineAlways ==
    (Returned("process_single_pdf") /\ arg.fail = "none" /\ HasMetaTitle(arg) /\ UsableToc(arg))
        => /\ ~Invoked("extract_outline_heuristically")
           /\ Outline = DepthMapped(arg.toc)

\* C1 amended: with a table of contents that has an entry of depth 1 to 3,
\* heuristic extraction is never invoked, and whenever the record has status
\* "success" its outline is the outline of the TOC adapter.
C1_TocPrecedence ==
    (Returned("process_single_pdf") /\ UsableToc(arg))
        => /\ ~Invoked("extract_outline_heuristically")
           /\ ret.value.status = "success" => Outline = DepthMapped(arg.toc)

C1_Witness ==
    /\ Returned("process_single_pdf")
    /\ Len(arg.toc) = 1
    /\ UsableToc(arg)
    /\ extract_outline_heuristically(arg) # <<>>
    /\ ret.value.status = "success"
    /\ Invoked("extract_outline_from_toc")
    /\ Outline = DepthMapped(arg.toc)

\* C2: extract_outline_from_toc keeps exactly the entries of depth 1, 2 or 3, in
\* their order, depth d as level "H<d>" with the page unchanged (and the text
\* stripped); every other entry is dropped; it returns None when nothing is kept.
C2_TocMapping ==
    Returned("extract_outline_from_toc")
        => /\ ret.list = DepthMapped(arg)
           /\ ret.none = (DepthMapped(arg) = <<>>)

C2_Witness ==
    /\ Returned("extract_outline_from_toc")
    /\ arg = ExampleToc
    /\ ret.list = <<[level |-> "H1", text |-> IntroText, page |-> 1],
                    [level |-> "H2", text |-> <<"D","e","t","a","i","l","s">>, page |-> 2]>>

NoDuplicates(outline) ==
    \A i, j \in DOMAIN outline :
        i # j => <<outline[i].page, Lower(outline[i].text)>>
                    # <<outline[j].page, Lower(outline[j].text)>>

\* C3 as stated: in the outline of every record, whichever path produced it, no
\* two entries share the same (page, lowercased text).
C3_NoDuplicatesAnyPath == Returned("process_single_pdf") => NoDuplicates(Outline)

\* C3 amended: in every outline produced by heuristic extraction and in every
\* synthetic error record, no two entries share the same (page, lowercased text).
C3_NoDuplicatesHeuristic ==
    (/\ Returned("process_single_pdf")
     /\ Invoked("extract_outline_heuristically") \/ ret.value.status = "error")
        => NoDuplicates(Outline)

\* two blocks of one page that differ in case only both get a level; one is emitted
C3_Witness ==
    /\ Returned("process_single_pdf")
    /\ Invoked("extract_outline_heuristically")
    /\ LET blocks == CollectBlocks(arg.pages, 1)
           body == BodyTextSize(blocks)
           levels == SizeToLevel(HeadingSizes(blocks))
           Candidate(i) == /\ Classified(blocks[i], body, HeadingSizes(blocks))
                           /\ ResolveLevel(blocks[i], levels, body) # "none"
       IN  \E i, j \in DOMAIN blocks :
              /\ i < j
              /\ Candidate(i) /\ Candidate(j)
              /\ blocks[i].page = blocks[j].page
              /\ clean_text(blocks[i].text) # clean_text(blocks[j].text)
              /\ Lower(clean_text(blocks[i].text)) = Lower(clean_text(blocks[j].text))
              /\ Cardinality({k \in DOMAIN Outline :
                     /\ Outline[k].page = blocks[i].page
                     /\ Lower(Outline[k].text) = Lower(clean_text(blocks[i].text))}) = 1

\* the error record of a file: title the file name, one H1 entry on page 1
SyntheticRecord(pdf_path, text) ==
    [ path |-> pdf_path, status |-> "error",
      data |-> [title |-> pdf_path[2],
                outline |-> <<[level |-> "H1", text |-> text, page |-> 1]>>] ]

\* the exception that leaves the reading of document doc, "none" if none does
Failure(doc) ==
    IF doc.fail = "open" THEN "FileDataError"
    ELSE IF Len(doc.pages) + doc.extraPages > 50 THEN "none"
    ELSE IF ~HasMetaTitle(doc) /\ FirstPageRaises(doc) \notin {"none", "IndexError", "ValueError"}
         THEN FirstPageRaises(doc)
    ELSE IF doc.fail = "toc" THEN "RuntimeError"
    ELSE "none"

C4_Records ==
    /\ ~poolError
    /\ Len(written) <= NDocs
    /\ \A i \in DOMAIN written :
          written[i] = [name |-> OutputName(PdfPath(i)), data |-> results[i].data]
    /\ \A d \in Files :
          /\ pc[d] \in {"queued", "done"}
          /\ pc[d] = "queued" => results[d] = NoResult
          /\ pc[d] = "done" =>
                /\ results[d].path = PdfPath(d)
                /\ results[d].status \in {"success", "error"}
                /\ Failure(docs[d]) # "none" =>
                      results[d] = SyntheticRecord(PdfPath(d),
                                       <<"Error processing file: ", Failure(docs[d])>>)
                /\ Failure(docs[d]) = "none" /\ Len(docs[d].pages) + docs[d].extraPages <= 50
                      => results[d].status = "success"

C4_RecordsKept ==
    \A d \in Files : pc[d] = "done" => pc'[d] = "done" /\ results'[d] = results[d]

\* C4: every document yields exactly one record, and one output file made of it;
\* a failure raised while the document is opened or read yields the error record
\* (title the file name, one H1 entry on page 1 with the failure's description),
\* never reaches the pool and never changes the record of another document.
C4_OneRecordPerDocument == []C4_Records /\ [][C4_RecordsKept]_vars

C4_Witness ==
    /\ Len(written) = NDocs
    /\ \E d, e \in Files :
          /\ docs[d].fail = "open"
          /\ written[d].data.outline =
                 <<[level |-> "H1", text |-> <<"Error processing file: ", "FileDataError">>,
                    page |-> 1]>>
          /\ Failure(docs[e]) = "none"
          /\ results[e].status = "success"
          /\ written[e].data.outline # <<>>

\* C5: a document of more than 50 pages yields the synthetic limit record whatever
\* its metadata, table of contents and text, and neither get_title nor the TOC
\* adapter nor heuristic extraction runs; a document of 50 pages or fewer is never
\* rejected by the limit.
C5_PageLimit ==
    (Returned("process_single_pdf") /\ arg.fail # "open")
        => IF Len(arg.pages) + arg.extraPages > 50
           THEN /\ ret.value = SyntheticRecord(PdfPath(1), <<"Error: PDF exceeds 50 page limit">>)
                /\ ret.calls = {}
           ELSE /\ Outline # <<[level |-> "H1", text |-> <<"Error: PDF exceeds 50 page limit">>,
                                page |-> 1]>>
                /\ Invoked("get_title")

C5_Witness ==
    /\ Returned("process_single_pdf")
    /\ Len(arg.pages) + arg.extraPages = 51
    /\ HasMetaTitle(arg)
    /\ UsableToc(arg)
    /\ arg.pages # <<>>
    /\ ret.value.status = "error"
    /\ ret.value.data.title = FileName(1)
    /\ ret.calls = {}

\* reading the first page fails: there is no page, get_text raises, or a line's
\* first span has no size
FirstPageFails(doc) ==
    \/ Len(doc.pages) + doc.extraPages = 0
    \/ /\ doc.pages # <<>>
       /\ \/ doc.pages[1].err # "none"
          \/ \E b \in DOMAIN doc.pages[1].blocks : \E l \in DOMAIN doc.pages[1].blocks[b] :
                /\ doc.pages[1].blocks[b][l] # <<>>
                /\ ~doc.pages[1].blocks[b][l][1].hasSize

\* C6: when the metadata title is missing or blank, any failure while the first
\* page is read is swallowed by get_title, the title is "Untitled Document" and the
\* record has status "success".
C6_TitleNeverAborts ==
    (/\ Returned("process_single_pdf")
     /\ arg.fail = "none"
     /\ Len(arg.pages) + arg.extraPages <= 50
     /\ ~HasMetaTitle(arg)
     /\ FirstPageFails(arg))
        => /\ ret.value.status = "success"
           /\ ret.value.data.title = UntitledDocument

PagesAscending(outline) ==
    \A i \in 1..(Len(outline) - 1) : outline[i].page <= outline[i + 1].page

\* xs is a subsequence of ys
RECURSIVE IsSubsequence(_, _)
IsSubsequence(xs, ys) ==
    IF xs = <<>> THEN TRUE
    ELSE IF ys = <<>> THEN FALSE
    ELSE IF xs[1] = ys[1] THEN IsSubsequence(Tail(xs), Tail(ys))
    ELSE IsSubsequence(xs, Tail(ys))

\* the (page, text) of the source entries in the order the program traverses them:
\* the entries of the table of contents, or the blocks page by page
Traversed(doc, fromToc) ==
    IF fromToc THEN [i \in DOMAIN doc.toc |-> <<doc.toc[i].page, Strip(doc.toc[i].text)>>]
    ELSE LET blocks == CollectBlocks(doc.pages, 1)
         IN  [i \in DOMAIN blocks |-> <<blocks[i].page, NormalizeSpace(blocks[i].text)>>]

InTraversalOrder ==
    ret.value.status = "success" =>
        IsSubsequence([i \in DOMAIN Outline |-> <<Outline[i].page, Outline[i].text>>],
                      Traversed(arg, ~Invoked("extract_outline_heuristically")))

\* C7 as stated: in every record the pages of consecutive entries do not decrease
\* and the entries are in the order their source entries were traversed.
C7_DocumentOrderAnyPath ==
    Returned("process_single_pdf") => PagesAscending(Outline) /\ InTraversalOrder

\* C7 amended: in every record the entries are in the order their source entries
\* were traversed (no step re-sorts the outline); in an outline produced by
\* heuristic extraction and in a synthetic error record the pages of consecutive
\* entries do not decrease.
C7_DocumentOrder ==
    Returned("process_single_pdf")
        => /\ InTraversalOrder
           /\ (Invoked("extract_outline_heuristically") \/ ret.value.status = "error")
                 => PagesAscending(Outline)

C7_Witness ==
    /\ Returned("process_single_pdf")
    /\ Invoked("extract_outline_heuristically")
    /\ Len(Outline) = 3
    /\ Outline[1].page = Outline[2].page
    /\ Outline[2].page < Outline[3].page
    /\ Outline[1].level = "H3"
    /\ Outline[3].level = "H1"

LevelRank(level) == CASE level = "H1" -> 1 [] level = "H2" -> 2 [] level = "H3" -> 3

C9_LevelResolution ==
    Returned("extract_outline_heuristically") =>
        /\ ret.outline = [k \in DOMAIN ret.trace |-> Entry(ret.trace[k])]
        /\ \A i \in DOMAIN ret.blocks :
              LET b == ret.blocks[i]
                  clean == clean_text(b.text)
                  map == ret.size_to_level
                  expected == IF b.font_size \in DOMAIN map THEN map[b.font_size]
                              ELSE IF b.is_bold /\ b.font_size >= ret.body_text_size THEN "H3"
                              ELSE "none"
                  emitted == {k \in DOMAIN ret.trace : ret.trace[k].src = i}
                  earlier == \E k \in DOMAIN ret.trace :
                                /\ ret.trace[k].src < i
                                /\ ret.trace[k].page = b.page
                                /\ Lower(ret.trace[k].text) = Lower(clean)
              IN  Accepted(clean, b, ret.body_text_size, ret.heading_sizes) =>
                     /\ \A k \in emitted :
                           ret.trace[k] = [level |-> expected, text |-> clean,
                                           page |-> b.page, src |-> i]
                     /\ expected = "none" => emitted = {}
                     /\ (expected # "none" /\ ~earlier) => emitted # {}

\* body size 10; the bold size-10 block "1.1 Overview" on page 3 is emitted as H3,
\* the bold size-8 block "1.1 Overview" on page 2 is left out
C9_Witness ==
    /\ Returned("extract_outline_heuristically")
    /\ ret.body_text_size = 10
    /\ 10 \notin DOMAIN ret.size_to_level
    /\ \E i, j \in DOMAIN ret.blocks :
          /\ ret.blocks[i] = [text |-> OverviewText, font_size |-> 8, is_bold |-> TRUE, page |-> 2]
          /\ Classified(ret.blocks[i], 10, ret.heading_sizes)
          /\ ret.blocks[j] = [text |-> OverviewText, font_size |-> 10, is_bold |-> TRUE, page |-> 3]
    /\ ret.outline = <<[level |-> "H3", text |-> OverviewText, page |-> 3]>>

\* C10: a normalized text of more than 30 characters and more than 5 words is
\* rejected at the word-repetition step exactly when more than half of its distinct
\* words occur more than once; a shorter text is never rejected at that step.
C10_RepetitionStep ==
    Returned("clean_text") =>
        LET text == NormalizeSpace(arg)
            words == Split(text)
            distinct == {words[i] : i \in DOMAIN words}
            repeated == {w \in distinct : Cardinality({i \in DOMAIN words : words[i] = w}) > 1}
        IN  (ret.step = "repetition")
               = (/\ Len(text) > 30
                  /\ Len(words) > 5
                  /\ 2 * Cardinality(repeated) > Cardinality(distinct))

=============================================================================
